---- MODULE Spec2Model ----
(***************************************************************************)
(* Job orchestration and progress-broadcast pipeline of the scene          *)
(* detection platform: the HTTP control surface (server/routes.ts), the    *)
(* worker handler (server/services/job-queue.ts), the in-process queue     *)
(* (server/services/redis.ts, InMemoryQueue), the stand-in worker          *)
(* processor (server/services/video-processor.ts) and the record store     *)
(* (server/storage.ts).                                                    *)
(*                                                                         *)
(* The server is a single event loop: every action below is one            *)
(* run-to-completion segment of a handler, from one await to the next.     *)
(* A store call takes effect in the step that resolves it.  The work queue *)
(* is the repository's own InMemoryQueue, which runs one handler at a      *)
(* time; an upload's video and job carry the same index in the model.      *)
(* WebSocket clients register, fail and close on their own; broadcast()    *)
(* hands each event to the registered open sockets within the emitting     *)
(* step.  The video delete route is the one of the later routes revision.  *)
(***************************************************************************)
EXTENDS Integers, Sequences, FiniteSets, TLC

(* ------------------------------ bounds --------------------------------- *)
\* number of uploads submitted in a behaviour
MaxJobs == 2
\* number of cancel, retry and progress requests made in a behaviour
MaxRequests == 1
\* steps of the simulated processing loop (the code uses 10)
TotalSteps == 2
\* progress callbacks whose store calls are still outstanding
MaxInFlight == 1

\* WebSocket connections made in a behaviour
MaxSubs == 2

JobIds == 1..MaxJobs
Subs == 1..MaxSubs

\* sockets the browser's provider creates in a behaviour
MaxSockets == 7
\* messages the browser's provider receives in a behaviour
MaxMessages == 2

(* ------------------------------ values --------------------------------- *)
Null == "null"
SetDate == "date"
Absent == [absent |-> TRUE]
NoEvent == [type |-> "none"]

\* request bodies posted to /api/jobs/:id/progress; a field the body does
\* not carry is undefined
NoField == "undefined"
PostBodies ==
  {[hasProgress |-> TRUE, progress |-> 150, status |-> NoField,
    error |-> NoField],
   [hasProgress |-> TRUE, progress |-> 30, status |-> "processing",
    error |-> NoField],
   [hasProgress |-> FALSE, progress |-> 0, status |-> "failed",
    error |-> "worker error"]}

\* values a worker processor can throw
Thrown == {[isError |-> TRUE, message |-> "processing failed"],
           [isError |-> FALSE, message |-> "x"]}

\* Math.min(1000 * Math.pow(2, attempts), 30000): base and cap of the delay
BaseDelay == 1000
MaxDelay == 30000

\* useState(null): no message yet
NoMessage == [type |-> "null"]

\* event.data of the messages the provider's socket delivers: two events as
\* the server's JSON.stringify writes them, a truncated one and plain text
RawMessages ==
  {"{\"type\":\"job_progress\"}", "{\"type\":\"job_completed\"}",
   "{\"type\":\"job_pro", "pong"}

\* the provider before its effect runs: useState(false), useState(null),
\* useRef(null), useRef(), useRef(0)
NotMounted ==
  [mounted |-> "init", socks |-> <<>>, timers |-> <<>>, isConnected |-> FALSE,
   lastMessage |-> NoMessage, attempts |-> 0, msgs |-> <<>>]

\* no getWorkerStats call made
NoStats ==
  [pc |-> "idle", size0 |-> 0, waiting |-> 0, active |-> 0, completed |-> 0,
   failed |-> 0, items |-> <<>>, workers |-> <<>>]

VARIABLES
  jobs,          \* jobs table: id -> row, or Absent
  videos,        \* videos table: id -> row, or Absent
  queue,         \* InMemoryQueue.jobs, in insertion order
  isProcessing,  \* InMemoryQueue.isProcessing
  h,             \* the running worker handler: position and locals
  cbs,           \* progress callbacks with an outstanding store call
  submitPc,      \* position of the process-upload request of each upload
  retryPending,  \* retry requests between store write and queue add: job, row
  bcast,         \* the event broadcast by the last step, or NoEvent
  lastOp,        \* the last step: operation and job id
  requests,      \* cancel, retry and progress requests made so far
  clients,       \* the set of registered WebSocket clients
  sock,          \* each subscriber's socket: its readyState and transport
  inbox,         \* the messages each subscriber has received, in order
  deletePc,      \* position of the DELETE /api/videos/:id request per video
  ui,            \* the browser's WebSocketProvider: refs, state, sockets, timers
  stats          \* the getWorkerStats call: position and the counts read so far

vars == <<jobs, videos, queue, isProcessing, h, cbs, submitPc, retryPending,
          bcast, lastOp, requests, clients, sock, inbox, deletePc, ui, stats>>

(* --------------------------- record store ------------------------------ *)
Exists(id) == jobs[id] # Absent

\* a new row that is already marked started
NewJob_Started(videoId) ==
  [status |-> "queued", progress |-> 0, error |-> Null, startedAt |-> SetDate,
   completedAt |-> Null, data |-> "payload", videoId |-> videoId]

\* a row of the jobs table as createJob returns it: column defaults
NewJob(videoId) ==
  [status |-> "queued", progress |-> 0, error |-> Null, startedAt |-> Null,
   completedAt |-> Null, data |-> "payload", videoId |-> videoId]

NewVideo == [status |-> "uploaded"]

\* db.update(...).set(updates): the named columns change, the others stay
SetColumns(row, updates) ==
  [f \in DOMAIN row |-> IF f \in DOMAIN updates THEN updates[f] ELSE row[f]]

\* an update that inserts a row when none matches
updateJob_Upsert(id, updates) ==
  [jobs EXCEPT ![id] = SetColumns(IF Exists(id) THEN @ ELSE NewJob(id),
                                  updates)]

\* storage.updateJob: update where id matches; no row, no change
updateJob(id, updates) ==
  IF Exists(id) THEN [jobs EXCEPT ![id] = SetColumns(@, updates)] ELSE jobs

\* storage.updateVideo
updateVideo(id, updates) ==
  IF videos[id] # Absent THEN [videos EXCEPT ![id] = SetColumns(@, updates)]
  ELSE videos

(* ------------------------------ events --------------------------------- *)
\* the message handed to broadcast(): type, job id and the row it carries
Event(type, id, row) == [type |-> type, job |-> id, row |-> row]

Op(op, id) == [op |-> op, job |-> id]

\* a socket whose readyState is OPEN; "broken" is an OPEN socket whose
\* transport has failed and whose error event has not been emitted yet, so
\* what is sent to it is lost
ReadyOpen(s) == sock[s] \in {"open", "broken"}

\* a step that calls broadcast() not at all
silent ==
  /\ bcast' = NoEvent
  /\ inbox' = inbox

\* broadcast that sends to one registered client only
broadcast_FirstClientOnly(data) ==
  /\ bcast' = data
  /\ inbox' = [s \in Subs |->
                IF /\ s \in clients /\ sock[s] = "open"
                   /\ \A t \in clients : s <= t
                THEN Append(inbox[s], data) ELSE inbox[s]]

\* broadcast that gives up at the first client that is not OPEN
broadcast_StopsAtNotOpen(data) ==
  /\ bcast' = data
  /\ inbox' = [s \in Subs |->
                IF /\ s \in clients /\ sock[s] = "open"
                   /\ \A t \in clients : ReadyOpen(t)
                THEN Append(inbox[s], data) ELSE inbox[s]]

\* broadcast(data): clients.forEach(client => { if (client.readyState ===
\* WebSocket.OPEN) client.send(message) })
broadcast(data) ==
  /\ bcast' = data
  /\ inbox' = [s \in Subs |->
                IF s \in clients /\ ReadyOpen(s) /\ sock[s] # "broken"
                THEN Append(inbox[s], data) ELSE inbox[s]]

(* --------------------------- in-process queue -------------------------- *)
Idle == [pc |-> "idle", job |-> 0, item |-> 0, i |-> 0, err |-> Null]

WaitingItems(q) == {k \in DOMAIN q : q[k].status = "waiting"}

\* a search that returns the waiting job added last
FirstWaiting_Newest(q) ==
  IF WaitingItems(q) = {} THEN 0
  ELSE CHOOSE k \in WaitingItems(q) : \A m \in WaitingItems(q) : k >= m

\* Array.from(jobs.values()).find(j => j.status === 'waiting'); 0 if none
FirstWaiting(q) ==
  IF WaitingItems(q) = {} THEN 0
  ELSE CHOOSE k \in WaitingItems(q) : \A m \in WaitingItems(q) : k <= m

\* one turn of the startProcessing loop: take the first waiting job and
\* enter processJob up to the handler's first await, or stop the loop
StartNext(q) ==
  LET k == FirstWaiting(q) IN
  IF k = 0
  THEN /\ isProcessing' = FALSE
       /\ queue' = q
       /\ h' = Idle
  ELSE /\ isProcessing' = TRUE
       /\ queue' = [q EXCEPT ![k].status = "processing"]
       /\ h' = [pc |-> "start", job |-> q[k].jobId, item |-> k, i |-> 0,
                err |-> Null]

\* add that appends the job and never starts the processing loop
add_NoStart(jobId, videoId) ==
  /\ queue' = Append(queue, [jobId |-> jobId, videoId |-> videoId,
                             status |-> "waiting", progress |-> 0])
  /\ UNCHANGED <<isProcessing, h>>

\* InMemoryQueue.add
add(jobId, videoId) ==
  LET q == Append(queue, [jobId |-> jobId, videoId |-> videoId,
                          status |-> "waiting", progress |-> 0])
  IN IF ~isProcessing
     THEN StartNext(q)
     ELSE /\ queue' = q
          /\ UNCHANGED <<isProcessing, h>>

(* ------------------------------- Init ---------------------------------- *)
Init ==
  /\ jobs = [j \in JobIds |-> Absent]
  /\ videos = [j \in JobIds |-> Absent]
  /\ queue = <<>>
  /\ isProcessing = FALSE
  /\ h = Idle
  /\ cbs = {}
  /\ submitPc = [j \in JobIds |-> "none"]
  /\ retryPending = {}
  /\ bcast = NoEvent
  /\ lastOp = [op |-> "init", job |-> 0]
  /\ requests = 0
  /\ clients = {}
  /\ sock = [s \in Subs |-> "none"]
  /\ inbox = [s \in Subs |-> <<>>]
  /\ deletePc = [v \in JobIds |-> "none"]
  /\ ui = NotMounted
  /\ stats = NoStats

(* ----------------- POST /api/videos/process-upload --------------------- *)
\* storage.createVideo
SubmitCreateVideo(j) ==
  /\ submitPc[j] = "none"
  /\ \A k \in JobIds : k < j => submitPc[k] # "none"
  /\ videos' = [videos EXCEPT ![j] = NewVideo]
  /\ submitPc' = [submitPc EXCEPT ![j] = "video"]
  /\ silent
  /\ lastOp' = Op("createVideo", j)
  /\ UNCHANGED <<ui, stats, deletePc, clients, sock, jobs, queue, isProcessing, h, cbs, retryPending, requests>>

\* storage.createJob throws (the store is unreachable, or the video row is
\* gone and the insert violates jobs.video_id): the catch answers 500
SubmitCreateJobFails(j) ==
  /\ submitPc[j] = "video"
  /\ submitPc' = [submitPc EXCEPT ![j] = "error"]
  /\ silent
  /\ lastOp' = Op("createJobFails", j) @@ [res |-> 500]
  /\ UNCHANGED <<ui, stats, deletePc, clients, sock, jobs, videos, queue, isProcessing,
                 h, cbs, retryPending, requests>>

\* storage.createJob
SubmitCreateJob(j) ==
  /\ submitPc[j] = "video"
  /\ videos[j] # Absent
  /\ jobs' = [jobs EXCEPT ![j] = NewJob(j)]
  /\ submitPc' = [submitPc EXCEPT ![j] = "job"]
  /\ silent
  /\ lastOp' = Op("createJob", j)
  /\ UNCHANGED <<ui, stats, deletePc, clients, sock, videos, queue, isProcessing, h, cbs, retryPending, requests>>

\* jobQueue.add, then broadcast video_uploaded
SubmitAdd(j) ==
  /\ submitPc[j] = "job"
  /\ add(j, j)
  /\ submitPc' = [submitPc EXCEPT ![j] = "done"]
  /\ broadcast(Event("video_uploaded", j, jobs[j]))
  /\ lastOp' = Op("submit", j)
  /\ UNCHANGED <<ui, stats, deletePc, clients, sock, jobs, videos, cbs, retryPending, requests>>

(* --------------------- POST /api/jobs/:id/cancel ----------------------- *)
Cancel(j) ==
  /\ requests < MaxRequests
  /\ requests' = requests + 1
  /\ jobs' = updateJob(j, [status |-> "cancelled"])
  /\ IF Exists(j) THEN broadcast(Event("job_cancelled", j, jobs'[j]))
     ELSE silent
  /\ lastOp' = Op("cancel", j) @@ [res |-> IF Exists(j) THEN 200 ELSE 404]
  /\ UNCHANGED <<ui, stats, deletePc, clients, sock, videos, queue, isProcessing, h, cbs, submitPc, retryPending>>

(* ---------------------- POST /api/jobs/:id/retry ----------------------- *)
\* a retry that resets status and progress and keeps the old error
RetryWrite_KeepsError(j) ==
  /\ requests < MaxRequests
  /\ \A p \in retryPending : p.job # j
  /\ requests' = requests + 1
  /\ jobs' = updateJob(j, [status |-> "queued", progress |-> 0,
                           startedAt |-> Null, completedAt |-> Null])
  /\ retryPending' = IF Exists(j)
                     THEN retryPending \cup {[job |-> j, row |-> jobs'[j]]}
                     ELSE retryPending
  /\ silent
  /\ lastOp' = Op("retry", j) @@ [res |-> IF Exists(j) THEN 0 ELSE 404]
  /\ UNCHANGED <<ui, stats, deletePc, clients, sock, videos, queue, isProcessing, h, cbs, submitPc>>

\* storage.updateJob; 404 when it returns no row
RetryWrite(j) ==
  /\ requests < MaxRequests
  /\ \A p \in retryPending : p.job # j
  /\ requests' = requests + 1
  /\ jobs' = updateJob(j, [status |-> "queued", progress |-> 0,
                           error |-> Null, startedAt |-> Null,
                           completedAt |-> Null])
  /\ retryPending' = IF Exists(j)
                     THEN retryPending \cup {[job |-> j, row |-> jobs'[j]]}
                     ELSE retryPending
  /\ silent
  /\ lastOp' = Op("retry", j) @@ [res |-> IF Exists(j) THEN 0 ELSE 404]
  /\ UNCHANGED <<ui, stats, deletePc, clients, sock, videos, queue, isProcessing, h, cbs, submitPc>>

\* jobQueue.add with the returned row's videoId, then broadcast job_retried
\* with the row the update returned
RetryAdd(j) ==
  \E p \in retryPending :
    /\ p.job = j
    /\ add(j, p.row.videoId)
    /\ retryPending' = retryPending \ {p}
    /\ broadcast(Event("job_retried", j, p.row))
    /\ lastOp' = Op("retryAdd", j)
    /\ UNCHANGED <<ui, stats, deletePc, clients, sock, jobs, videos, cbs, submitPc,
                   requests>>

(* --------------------- POST /api/jobs/:id/progress --------------------- *)
Empty == [f \in {} |-> Null]

\* the updateData object the route builds from the request body
updateData(body) ==
  (IF body.hasProgress THEN [progress |-> body.progress] ELSE Empty)
  @@ (IF body.status # NoField THEN [status |-> body.status] ELSE Empty)
  @@ (IF body.error # NoField THEN [error |-> body.error] ELSE Empty)
  @@ (IF body.status = "processing" THEN [startedAt |-> SetDate] ELSE Empty)
  @@ (IF body.status \in {"completed", "failed"}
      THEN [completedAt |-> SetDate] ELSE Empty)

PostProgress(j, body) ==
  /\ requests < MaxRequests
  /\ requests' = requests + 1
  /\ jobs' = updateJob(j, updateData(body))
  /\ IF Exists(j) THEN broadcast(Event("job_progress", j, jobs'[j]))
     ELSE silent
  /\ lastOp' = Op("postProgress", j)
                @@ [res |-> IF Exists(j) THEN 200 ELSE 404,
                    cols |-> DOMAIN updateData(body)]
  /\ UNCHANGED <<ui, stats, deletePc, clients, sock, videos, queue, isProcessing, h, cbs, submitPc, retryPending>>

(* ------------- jobQueue.process('process-video') handler --------------- *)
\* await storage.updateJob(jobId, {status: processing, startedAt, progress: 0})
WorkerStartWrite ==
  /\ h.pc = "start"
  /\ jobs' = updateJob(h.job, [status |-> "processing", startedAt |-> SetDate,
                               progress |-> 0])
  /\ h' = [h EXCEPT !.pc = "run"]
  /\ silent
  /\ lastOp' = Op("startWrite", h.job)
  /\ UNCHANGED <<ui, stats, deletePc, clients, sock, videos, queue, isProcessing, cbs, submitPc, retryPending, requests>>

\* Math.round(((i + 1) / totalSteps) * 100) for loop index i
StepProgress(i) == (200 * (i + 1) + TotalSteps) \div (2 * TotalSteps)

\* one iteration of the detectScenes loop: the timer fires and onProgress is
\* called, which issues storage.updateJob(jobId, {progress}) and is not
\* awaited; after the last iteration detectScenes returns and the handler
\* issues the completion write
WorkerStep ==
  /\ h.pc = "run"
  /\ h.i < TotalSteps
  /\ Cardinality(cbs) < MaxInFlight
  /\ cbs' = cbs \cup {[job |-> h.job, progress |-> StepProgress(h.i),
                       stage |-> "write"]}
  /\ h' = [h EXCEPT !.i = @ + 1,
                    !.pc = IF h.i + 1 = TotalSteps THEN "complete" ELSE "run"]
  /\ silent
  /\ lastOp' = Op("step", h.job)
  /\ UNCHANGED <<ui, stats, deletePc, clients, sock, jobs, videos, queue, isProcessing, submitPc, retryPending, requests>>

\* the conversion without its fallback for values that are not Errors
ErrorMessage_NoFallback(e) == IF e.isError THEN e.message ELSE ""

\* error instanceof Error ? error.message : "Unknown error"
ErrorMessage(e) == IF e.isError THEN e.message ELSE "Unknown error"

\* the worker processor throws: control enters the handler's catch block,
\* which issues the failed write
WorkerThrow(e) ==
  /\ h.pc = "run"
  /\ h' = [h EXCEPT !.pc = "fail", !.err = ErrorMessage(e)]
  /\ silent
  /\ lastOp' = Op("throw", h.job)
  /\ UNCHANGED <<ui, stats, deletePc, clients, sock, jobs, videos, queue, isProcessing, cbs, submitPc,
                 retryPending, requests>>

\* the progress callback's await storage.updateJob(jobId, {progress})
CallbackWrite(cb) ==
  /\ cb \in cbs
  /\ cb.stage = "write"
  /\ jobs' = updateJob(cb.job, [progress |-> cb.progress])
  /\ cbs' = (cbs \ {cb}) \cup {[cb EXCEPT !.stage = "get"]}
  /\ silent
  /\ lastOp' = Op("callbackWrite", cb.job)
  /\ UNCHANGED <<ui, stats, deletePc, clients, sock, videos, queue, isProcessing, h, submitPc, retryPending, requests>>

\* the progress callback's await storage.getJob(jobId), then broadcast
CallbackBroadcast(cb) ==
  /\ cb \in cbs
  /\ cb.stage = "get"
  /\ cbs' = cbs \ {cb}
  /\ broadcast(Event("job_progress", cb.job, jobs[cb.job])
                 @@ [progress |-> cb.progress])
  /\ lastOp' = Op("callbackBroadcast", cb.job)
  /\ UNCHANGED <<ui, stats, deletePc, clients, sock, jobs, videos, queue, isProcessing, h, submitPc, retryPending, requests>>

\* await storage.updateJob(jobId, {status: completed, progress: 100, ...})
WorkerCompleteWrite ==
  /\ h.pc = "complete"
  /\ jobs' = updateJob(h.job, [status |-> "completed", progress |-> 100,
                               completedAt |-> SetDate, data |-> "result"])
  /\ h' = [h EXCEPT !.pc = "completeGet"]
  /\ silent
  /\ lastOp' = Op("completeWrite", h.job)
  /\ UNCHANGED <<ui, stats, deletePc, clients, sock, videos, queue, isProcessing, cbs, submitPc, retryPending, requests>>

\* a broadcast whose send to a failing socket throws into the handler's try
\* block, so that the catch block runs after the completed write
WorkerCompleteBroadcast_SendThrows ==
  /\ h.pc = "completeGet"
  /\ broadcast(Event("job_completed", h.job, jobs[h.job]))
  /\ h' = IF \E s \in clients : sock[s] = "broken"
            THEN [h EXCEPT !.pc = "fail", !.err = "send failed"]
            ELSE [h EXCEPT !.pc = "completeVideo"]
  /\ lastOp' = Op("completeBroadcast", h.job)
  /\ UNCHANGED <<ui, stats, deletePc, clients, sock, jobs, videos, queue, isProcessing, cbs, submitPc,
                 retryPending, requests>>

\* await storage.getJob(jobId), then broadcast job_completed
WorkerCompleteBroadcast ==
  /\ h.pc = "completeGet"
  /\ broadcast(Event("job_completed", h.job, jobs[h.job]))
  /\ h' = [h EXCEPT !.pc = "completeVideo"]
  /\ lastOp' = Op("completeBroadcast", h.job)
  /\ UNCHANGED <<ui, stats, deletePc, clients, sock, jobs, videos, queue, isProcessing, cbs, submitPc,
                 retryPending, requests>>

\* bookkeeping that marks the job and leaves the processing loop
Settle_StopsLoop(status) ==
  /\ queue' = [queue EXCEPT ![h.item].status = status]
  /\ isProcessing' = FALSE
  /\ h' = Idle

\* the queue's bookkeeping when the handler settles, then the next loop turn
Settle(status) ==
  StartNext([queue EXCEPT ![h.item].status = status,
                          ![h.item].progress =
                             IF status = "completed" THEN 100 ELSE @])

\* await storage.updateVideo(videoId, {status: completed}); return result;
\* processJob marks the queue job completed and the loop goes on
WorkerCompleteVideo ==
  /\ h.pc = "completeVideo"
  /\ videos' = updateVideo(queue[h.item].videoId, [status |-> "completed"])
  /\ Settle("completed")
  /\ silent
  /\ lastOp' = Op("completeVideo", h.job)
  /\ UNCHANGED <<ui, stats, deletePc, clients, sock, jobs, cbs, submitPc, retryPending, requests>>

\* catch: await storage.updateJob(jobId, {status: failed, error, completedAt})
WorkerFailWrite ==
  /\ h.pc = "fail"
  /\ jobs' = updateJob(h.job, [status |-> "failed", error |-> h.err,
                               completedAt |-> SetDate])
  /\ h' = [h EXCEPT !.pc = "failGet"]
  /\ silent
  /\ lastOp' = Op("failWrite", h.job)
  /\ UNCHANGED <<ui, stats, deletePc, clients, sock, videos, queue, isProcessing, cbs, submitPc, retryPending, requests>>

\* catch: await storage.getJob(jobId), then broadcast job_failed
WorkerFailBroadcast ==
  /\ h.pc = "failGet"
  /\ broadcast(Event("job_failed", h.job, jobs[h.job]) @@ [error |-> h.err])
  /\ h' = [h EXCEPT !.pc = "failVideo"]
  /\ lastOp' = Op("failBroadcast", h.job)
  /\ UNCHANGED <<ui, stats, deletePc, clients, sock, jobs, videos, queue, isProcessing, cbs, submitPc,
                 retryPending, requests>>

\* catch: await storage.updateVideo(videoId, {status: failed}); throw error;
\* processJob's catch marks the queue job failed and the loop goes on
WorkerFailVideo ==
  /\ h.pc = "failVideo"
  /\ videos' = updateVideo(queue[h.item].videoId, [status |-> "failed"])
  /\ Settle("failed")
  /\ silent
  /\ lastOp' = Op("failVideo", h.job)
  /\ UNCHANGED <<ui, stats, deletePc, clients, sock, jobs, cbs, submitPc, retryPending, requests>>

(* ----------------------- DELETE /api/videos/:id ------------------------ *)
\* storage.deleteJobsByVideoId: the jobs rows of the video are removed
deleteJobsByVideoId(v) ==
  [j \in JobIds |->
     IF jobs[j] # Absent /\ jobs[j].videoId = v THEN Absent ELSE jobs[j]]

\* storage.getVideo; 404 when there is no row.  The deletion of the stored
\* object and of the scenes that follows touches nothing of this model
DeleteGetVideo(v) ==
  /\ requests < MaxRequests
  /\ deletePc[v] = "none"
  /\ requests' = requests + 1
  /\ deletePc' = [deletePc EXCEPT ![v] =
                    IF videos[v] # Absent THEN "jobs" ELSE "none"]
  /\ silent
  /\ lastOp' = Op("deleteGet", v)
                @@ [res |-> IF videos[v] # Absent THEN 0 ELSE 404]
  /\ UNCHANGED <<ui, stats, clients, sock, jobs, videos, queue, isProcessing, h, cbs,
                 submitPc, retryPending>>

\* await storage.deleteJobsByVideoId(id)
DeleteJobs(v) ==
  /\ deletePc[v] = "jobs"
  /\ jobs' = deleteJobsByVideoId(v)
  /\ deletePc' = [deletePc EXCEPT ![v] = "video"]
  /\ silent
  /\ lastOp' = Op("deleteJobs", v)
  /\ UNCHANGED <<ui, stats, clients, sock, videos, queue, isProcessing, h, cbs,
                 submitPc, retryPending, requests>>

\* await storage.deleteVideo(id): the row goes, unless a jobs row still
\* points at it (jobs.video_id references videos.id) and the delete throws
DeleteVideoRow(v) ==
  /\ deletePc[v] = "video"
  /\ LET referenced == \E j \in JobIds :
                          jobs[j] # Absent /\ jobs[j].videoId = v
     IN /\ videos' = IF referenced THEN videos
                     ELSE [videos EXCEPT ![v] = Absent]
        /\ lastOp' = Op("deleteVideo", v)
                      @@ [res |-> IF referenced THEN 500
                                  ELSE IF videos[v] # Absent THEN 200
                                  ELSE 404]
  /\ deletePc' = [deletePc EXCEPT ![v] = "done"]
  /\ silent
  /\ UNCHANGED <<ui, stats, clients, sock, jobs, queue, isProcessing, h, cbs, submitPc,
                 retryPending, requests>>

(* ------------------------- WebSocket clients --------------------------- *)
\* wss.on('connection'): the client is registered; nothing is replayed
Connect(s) ==
  /\ sock[s] = "none"
  /\ \A t \in Subs : t < s => sock[t] # "none"
  /\ clients' = clients \cup {s}
  /\ sock' = [sock EXCEPT ![s] = "open"]
  /\ silent
  /\ lastOp' = Op("connect", 0)
  /\ UNCHANGED <<ui, stats, deletePc, jobs, videos, queue, isProcessing, h, cbs, submitPc,
                 retryPending, requests>>

\* the transport of an OPEN socket fails; the error event comes later.
\* inbox keeps what a live connection has received: it is dropped here
TransportFail(s) ==
  /\ sock[s] = "open"
  /\ sock' = [sock EXCEPT ![s] = "broken"]
  /\ bcast' = NoEvent
  /\ inbox' = [inbox EXCEPT ![s] = <<>>]
  /\ lastOp' = Op("transportFail", 0)
  /\ UNCHANGED <<ui, stats, deletePc, jobs, videos, queue, isProcessing, h, cbs, submitPc,
                 retryPending, requests, clients>>

\* the socket leaves OPEN (CLOSING, CLOSED) before its close event is handled
SocketClosing(s) ==
  /\ ReadyOpen(s)
  /\ sock' = [sock EXCEPT ![s] = "closing"]
  /\ bcast' = NoEvent
  /\ inbox' = [inbox EXCEPT ![s] = <<>>]
  /\ lastOp' = Op("closing", 0)
  /\ UNCHANGED <<ui, stats, deletePc, jobs, videos, queue, isProcessing, h, cbs, submitPc,
                 retryPending, requests, clients>>

\* an error handler that logs and leaves the client registered
OnError_KeepsClient(s) ==
  /\ sock[s] = "broken"
  /\ sock' = [sock EXCEPT ![s] = "closing"]
  /\ silent
  /\ lastOp' = Op("onError", 0)
  /\ UNCHANGED <<ui, stats, deletePc, jobs, videos, queue, isProcessing, h, cbs,
                 submitPc, retryPending, requests, clients>>

\* ws.on('error'): clients.delete(ws); the socket then closes
OnError(s) ==
  /\ sock[s] = "broken"
  /\ clients' = clients \ {s}
  /\ sock' = [sock EXCEPT ![s] = "closing"]
  /\ silent
  /\ lastOp' = Op("onError", 0)
  /\ UNCHANGED <<ui, stats, deletePc, jobs, videos, queue, isProcessing, h, cbs, submitPc,
                 retryPending, requests>>

\* ws.on('close'): clients.delete(ws)
OnClose(s) ==
  /\ sock[s] = "closing"
  /\ clients' = clients \ {s}
  /\ sock' = [sock EXCEPT ![s] = "closed"]
  /\ silent
  /\ lastOp' = Op("onClose", 0)
  /\ UNCHANGED <<ui, stats, deletePc, jobs, videos, queue, isProcessing, h, cbs, submitPc,
                 retryPending, requests>>

(* ------------------- WebSocketProvider (browser) ----------------------- *)
\* Every socket the provider creates is an entry of ui.socks, ws.current is
\* the last one; every timer it sets is an entry of ui.timers,
\* reconnectTimeoutRef.current is the last one.  A socket whose transport
\* is gone is "closing" until the browser delivers its close event.  The
\* onerror handler only logs and is left out.
RECURSIVE Pow2(_)
Pow2(n) == IF n = 0 THEN 1 ELSE 2 * Pow2(n - 1)

Min(a, b) == IF a < b THEN a ELSE b

\* JSON.parse(event.data)
JSONparse(raw) ==
  CASE raw = "{\"type\":\"job_progress\"}"
         -> [ok |-> TRUE, value |-> [type |-> "job_progress"]]
    [] raw = "{\"type\":\"job_completed\"}"
         -> [ok |-> TRUE, value |-> [type |-> "job_completed"]]
    [] OTHER -> [ok |-> FALSE, value |-> NoMessage]

\* the provider's state and refs, its sockets and timers aside
UiRest == <<jobs, videos, queue, isProcessing, h, cbs, submitPc, retryPending,
            bcast, lastOp, requests, clients, sock, inbox, deletePc, stats>>

\* connect(): ws.current = new WebSocket(wsUrl), handlers attached
connect(u) ==
  [u EXCEPT !.socks = Append(@, [state |-> "connecting", opened |-> FALSE])]

\* useEffect(() => { connect(); ... }, [])
Mount ==
  /\ ui.mounted = "init"
  /\ ui' = connect([ui EXCEPT !.mounted = "mounted"])
  /\ UNCHANGED UiRest

\* ws.current.onopen: setIsConnected(true); reconnectAttemptsRef.current = 0
onopen(k) ==
  /\ k \in 1..Len(ui.socks)
  /\ ui.socks[k].state = "connecting"
  /\ ui' = [ui EXCEPT !.socks[k] = [state |-> "open", opened |-> TRUE],
                       !.isConnected = TRUE,
                       !.attempts = 0]
  /\ UNCHANGED UiRest

\* the connection attempt fails or the open connection is lost: the close
\* event of the socket is due
SocketDrops(k) ==
  /\ k \in 1..Len(ui.socks)
  /\ ui.socks[k].state \in {"connecting", "open"}
  /\ ui' = [ui EXCEPT !.socks[k].state = "closing"]
  /\ UNCHANGED UiRest

\* an onclose handler that counts the attempt before it computes the delay
onclose_CountsFirst(k) ==
  /\ k \in 1..Len(ui.socks)
  /\ ui.socks[k].state = "closing"
  /\ ui' = [ui EXCEPT !.socks[k].state = "closed",
                       !.isConnected = FALSE,
                       !.attempts = @ + 1,
                       !.timers = Append(@,
                          [delay |-> Min(BaseDelay * Pow2(ui.attempts + 1),
                                         MaxDelay),
                           state |-> "pending"])]
  /\ UNCHANGED UiRest

\* ws.current.onclose: setIsConnected(false); the delay from the attempts
\* counter, the counter incremented, setTimeout(connect, timeout)
onclose(k) ==
  /\ k \in 1..Len(ui.socks)
  /\ ui.socks[k].state = "closing"
  /\ ui' = [ui EXCEPT !.socks[k].state = "closed",
                       !.isConnected = FALSE,
                       !.attempts = @ + 1,
                       !.timers = Append(@,
                          [delay |-> Min(BaseDelay * Pow2(ui.attempts),
                                         MaxDelay),
                           state |-> "pending"])]
  /\ UNCHANGED UiRest

\* an onmessage handler that stores what it could not parse
onmessage_KeepsUnparsed(k, raw) ==
  /\ k \in 1..Len(ui.socks)
  /\ ui.socks[k].state = "open"
  /\ Len(ui.msgs) < MaxMessages
  /\ ui' = [ui EXCEPT !.msgs = Append(@, raw),
                       !.lastMessage = IF JSONparse(raw).ok
                                       THEN JSONparse(raw).value
                                       ELSE [type |-> "unparsed"]]
  /\ UNCHANGED UiRest

\* ws.current.onmessage: try { setLastMessage(JSON.parse(event.data)) }
\* catch { console.error }
onmessage(k, raw) ==
  /\ k \in 1..Len(ui.socks)
  /\ ui.socks[k].state = "open"
  /\ Len(ui.msgs) < MaxMessages
  /\ ui' = [ui EXCEPT !.msgs = Append(@, raw),
                       !.lastMessage = IF JSONparse(raw).ok
                                       THEN JSONparse(raw).value
                                       ELSE @]
  /\ UNCHANGED UiRest

\* the setTimeout callback of onclose: connect()
TimerFires(t) ==
  /\ t \in 1..Len(ui.timers)
  /\ ui.timers[t].state = "pending"
  /\ Len(ui.socks) < MaxSockets
  /\ ui' = connect([ui EXCEPT !.timers[t].state = "fired"])
  /\ UNCHANGED UiRest

\* the effect's cleanup at unmount: clearTimeout(reconnectTimeoutRef.current)
\* if set, ws.current.close() if set
cleanup ==
  /\ ui.mounted = "mounted"
  /\ ui' = [ui EXCEPT
        !.mounted = "unmounted",
        !.timers = [t \in DOMAIN @ |->
                      IF t = Len(@) /\ @[t].state = "pending"
                      THEN [@[t] EXCEPT !.state = "cleared"] ELSE @[t]],
        !.socks = [k \in DOMAIN @ |->
                      IF k = Len(@) /\ @[k].state \in {"connecting", "open"}
                      THEN [@[k] EXCEPT !.state = "closing"] ELSE @[k]]]
  /\ UNCHANGED UiRest

(* --------------------------- getWorkerStats ---------------------------- *)
\* Array.from(this.jobs.values()).filter(j => j.status === status).length
Count(status) ==
  Cardinality({i \in 1..Len(queue) : queue[i].status = status})

\* getActive(): the processing jobs, in insertion order
getActive ==
  LET RECURSIVE Pick(_)
      Pick(i) == IF i > Len(queue) THEN <<>>
                 ELSE (IF queue[i].status = "processing" THEN <<i>> ELSE <<>>)
                      \o Pick(i + 1)
  IN  Pick(1)

\* the rest of the state during a getWorkerStats call
StatsRest == <<jobs, videos, queue, isProcessing, h, cbs, submitPc,
               retryPending, requests, clients, sock, deletePc, ui>>

StatsStep(next) ==
  /\ silent
  /\ lastOp' = Op(next, 0)
  /\ UNCHANGED StatsRest

\* GET /api/metrics/workers: const waiting = await getWaitingCount()
StatsWaiting ==
  /\ stats.pc = "idle"
  /\ stats' = [stats EXCEPT !.pc = "active", !.waiting = Count("waiting"),
                             !.size0 = Len(queue)]
  /\ StatsStep("statsWaiting")

\* const active = await getActiveCount()
StatsActive ==
  /\ stats.pc = "active"
  /\ stats' = [stats EXCEPT !.pc = "completed",
                             !.active = Count("processing")]
  /\ StatsStep("statsActive")

\* const completed = await getCompletedCount()
StatsCompleted ==
  /\ stats.pc = "completed"
  /\ stats' = [stats EXCEPT !.pc = "failed",
                             !.completed = Count("completed")]
  /\ StatsStep("statsCompleted")

\* const failed = await getFailedCount()
StatsFailed ==
  /\ stats.pc = "failed"
  /\ stats' = [stats EXCEPT !.pc = "getActive", !.failed = Count("failed")]
  /\ StatsStep("statsFailed")

\* const activeJobs = await getActive()
StatsGetActive ==
  /\ stats.pc = "getActive"
  /\ stats' = [stats EXCEPT !.pc = "return", !.items = getActive]
  /\ StatsStep("statsGetActive")

\* return {waiting, active, completed, failed, workers: activeJobs.map(...)}
\* with job.progress() read from the queue's job at this moment
StatsReturn ==
  /\ stats.pc = "return"
  /\ stats' = [stats EXCEPT
        !.pc = "done",
        !.workers = [n \in 1..Len(stats.items) |->
                       [id |-> n, jobId |-> stats.items[n],
                        progress |-> queue[stats.items[n]].progress]]]
  /\ StatsStep("statsReturn")

(* ------------------------------- Next ---------------------------------- *)
Next ==
  \/ \E j \in JobIds : SubmitCreateVideo(j)
  \/ \E j \in JobIds : SubmitCreateJob(j)
  \/ \E j \in JobIds : SubmitCreateJobFails(j)
  \/ \E j \in JobIds : SubmitAdd(j)
  \/ \E v \in JobIds : DeleteGetVideo(v)
  \/ \E v \in JobIds : DeleteJobs(v)
  \/ \E v \in JobIds : DeleteVideoRow(v)
  \/ \E j \in JobIds : Cancel(j)
  \/ \E j \in JobIds : RetryWrite(j)
  \/ \E j \in JobIds : RetryAdd(j)
  \/ \E j \in JobIds, body \in PostBodies : PostProgress(j, body)
  \/ WorkerStartWrite
  \/ WorkerStep
  \/ \E e \in Thrown : WorkerThrow(e)
  \/ \E cb \in cbs : CallbackWrite(cb)
  \/ \E cb \in cbs : CallbackBroadcast(cb)
  \/ WorkerCompleteWrite
  \/ WorkerCompleteBroadcast
  \/ WorkerCompleteVideo
  \/ WorkerFailWrite
  \/ WorkerFailBroadcast
  \/ WorkerFailVideo

Spec == Init /\ [][Next]_vars

\* the steps the server takes on its own: request handlers resume after their
\* awaits, store calls resolve, timers fire, the queue loop goes on
Fairness ==
  /\ \A j \in JobIds : WF_vars(SubmitCreateJob(j))
  /\ \A j \in JobIds : WF_vars(SubmitAdd(j))
  /\ \A j \in JobIds : WF_vars(RetryAdd(j))
  /\ WF_vars(WorkerStartWrite)
  /\ WF_vars(WorkerStep)
  /\ WF_vars(\E cb \in cbs : CallbackWrite(cb))
  /\ WF_vars(\E cb \in cbs : CallbackBroadcast(cb))
  /\ WF_vars(WorkerCompleteWrite)
  /\ WF_vars(WorkerCompleteBroadcast)
  /\ WF_vars(WorkerCompleteVideo)
  /\ WF_vars(WorkerFailWrite)
  /\ WF_vars(WorkerFailBroadcast)
  /\ WF_vars(WorkerFailVideo)

\* Scenario A: jobs are uploaded and processed, no job is cancelled, retried
\* or reported on from outside, and no worker throws
NextA ==
  \/ \E j \in JobIds : SubmitCreateVideo(j)
  \/ \E j \in JobIds : SubmitCreateJob(j)
  \/ \E j \in JobIds : SubmitAdd(j)
  \/ WorkerStartWrite
  \/ WorkerStep
  \/ \E cb \in cbs : CallbackWrite(cb)
  \/ \E cb \in cbs : CallbackBroadcast(cb)
  \/ WorkerCompleteWrite
  \/ WorkerCompleteBroadcast
  \/ WorkerCompleteVideo

ScenarioA == Init /\ [][NextA]_vars /\ Fairness

\* Scenario C: as Scenario A, and the worker of any job may throw
NextC ==
  \/ \E j \in JobIds : SubmitCreateVideo(j)
  \/ \E j \in JobIds : SubmitCreateJob(j)
  \/ \E j \in JobIds : SubmitAdd(j)
  \/ WorkerStartWrite
  \/ WorkerStep
  \/ \E cb \in cbs : CallbackWrite(cb)
  \/ \E cb \in cbs : CallbackBroadcast(cb)
  \/ WorkerCompleteWrite
  \/ WorkerCompleteBroadcast
  \/ WorkerCompleteVideo
  \/ \E e \in Thrown : WorkerThrow(e)
  \/ WorkerFailWrite
  \/ WorkerFailBroadcast
  \/ WorkerFailVideo

ScenarioC == Init /\ [][NextC]_vars

\* the retry request as the client issues it: the retry button is offered
\* for failed jobs only
RetryFailed(j) ==
  /\ Exists(j)
  /\ jobs[j].status = "failed"
  /\ RetryWrite(j)

\* Scenario D: as Scenario C, and failed jobs are retried
NextD ==
  \/ \E j \in JobIds : SubmitCreateVideo(j)
  \/ \E j \in JobIds : SubmitCreateJob(j)
  \/ \E j \in JobIds : SubmitAdd(j)
  \/ \E j \in JobIds : RetryFailed(j)
  \/ \E j \in JobIds : RetryAdd(j)
  \/ WorkerStartWrite
  \/ WorkerStep
  \/ \E cb \in cbs : CallbackWrite(cb)
  \/ \E cb \in cbs : CallbackBroadcast(cb)
  \/ WorkerCompleteWrite
  \/ WorkerCompleteBroadcast
  \/ WorkerCompleteVideo
  \/ \E e \in Thrown : WorkerThrow(e)
  \/ WorkerFailWrite
  \/ WorkerFailBroadcast
  \/ WorkerFailVideo

ScenarioD == Init /\ [][NextD]_vars /\ Fairness

\* Scenario E: as Scenario A, with WebSocket clients that connect, break and
\* close at any time
NextE ==
  \/ \E j \in JobIds : SubmitCreateVideo(j)
  \/ \E j \in JobIds : SubmitCreateJob(j)
  \/ \E j \in JobIds : SubmitAdd(j)
  \/ WorkerStartWrite
  \/ WorkerStep
  \/ \E cb \in cbs : CallbackWrite(cb)
  \/ \E cb \in cbs : CallbackBroadcast(cb)
  \/ WorkerCompleteWrite
  \/ WorkerCompleteBroadcast
  \/ WorkerCompleteVideo
  \/ \E s \in Subs : Connect(s)
  \/ \E s \in Subs : TransportFail(s)
  \/ \E s \in Subs : SocketClosing(s)
  \/ \E s \in Subs : OnError(s)
  \/ \E s \in Subs : OnClose(s)

ScenarioE == Init /\ [][NextE]_vars

\* Scenario E with a worker processor that may throw: the handler's catch
\* block runs next to connecting, failing and closing WebSocket clients
NextF ==
  \/ NextE
  \/ \E e \in Thrown : WorkerThrow(e)
  \/ WorkerFailWrite
  \/ WorkerFailBroadcast
  \/ WorkerFailVideo

ScenarioF == Init /\ [][NextF]_vars

\* Scenario C with one GET /api/metrics/workers request
NextS ==
  \/ NextC
  \/ StatsWaiting
  \/ StatsActive
  \/ StatsCompleted
  \/ StatsFailed
  \/ StatsGetActive
  \/ StatsReturn

ScenarioS == Init /\ [][NextS]_vars

\* the browser's provider on its own: it mounts, its sockets open, deliver
\* messages and close, its timers fire, it unmounts
NextW ==
  \/ Mount
  \/ \E k \in 1..MaxSockets : onopen(k)
  \/ \E k \in 1..MaxSockets : SocketDrops(k)
  \/ \E k \in 1..MaxSockets : onclose(k)
  \/ \E k \in 1..MaxSockets, raw \in RawMessages : onmessage(k, raw)
  \/ \E t \in 1..MaxSockets : TimerFires(t)
  \/ cleanup

ClientSpec == Init /\ [][NextW]_vars

\* requests that name a job id the jobs table does not hold
CancelUnknown(j) == ~Exists(j) /\ Cancel(j)
RetryUnknown(j) == ~Exists(j) /\ RetryWrite(j)
PostUnknown(j, body) == ~Exists(j) /\ PostProgress(j, body)

\* Scenario A with cancel, retry and progress requests on unknown job ids
NextU ==
  \/ \E j \in JobIds : SubmitCreateVideo(j)
  \/ \E j \in JobIds : SubmitCreateJob(j)
  \/ \E j \in JobIds : SubmitAdd(j)
  \/ \E j \in JobIds : CancelUnknown(j)
  \/ \E j \in JobIds : RetryUnknown(j)
  \/ \E j \in JobIds, body \in PostBodies : PostUnknown(j, body)
  \/ WorkerStartWrite
  \/ WorkerStep
  \/ \E cb \in cbs : CallbackWrite(cb)
  \/ \E cb \in cbs : CallbackBroadcast(cb)
  \/ WorkerCompleteWrite
  \/ WorkerCompleteBroadcast
  \/ WorkerCompleteVideo

ScenarioU == Init /\ [][NextU]_vars

(* ------------------------------ claims --------------------------------- *)
StatusEdges ==
  {<<"queued", "processing">>, <<"processing", "completed">>,
   <<"processing", "failed">>, <<"queued", "cancelled">>,
   <<"processing", "cancelled">>, <<"failed", "queued">>}

Terminal == {"completed", "failed", "cancelled"}

\* the handler has passed its start write and runs the job's work or its
\* completion or failure steps
Running(j) ==
  /\ h.job = j
  /\ h.pc \in {"run", "complete", "completeGet", "completeVideo",
               "fail", "failGet", "failVideo"}

\* C1: every change of a job's persisted status is one of the edges of the
\* state machine; completed and cancelled are never left.
C1_StatusChangesAreEdges ==
  [][\A j \in JobIds :
       (Exists(j) /\ jobs'[j] # Absent /\ jobs'[j].status # jobs[j].status)
         => <<jobs[j].status, jobs'[j].status>> \in StatusEdges]_vars

\* C2: no job id has two work items that are waiting or running at once.
C2_OneLiveWorkItemPerJob ==
  \A j \in JobIds :
    Cardinality({k \in DOMAIN queue :
                   /\ queue[k].jobId = j
                   /\ queue[k].status \in {"waiting", "processing"}}) <= 1

\* C3: cancel of a completed or failed job changes no field of the job and
\* broadcasts nothing.
C3_CancelSettledRejected ==
  [][\A j \in JobIds :
       (/\ lastOp'.op = "cancel" /\ lastOp'.job = j
        /\ Exists(j) /\ jobs[j].status \in {"completed", "failed"})
         => (jobs'[j] = jobs[j] /\ bcast' = NoEvent)]_vars

\* C4: retry of a job that is not failed changes no field, schedules no work
\* item and broadcasts nothing.
C4_RetryNotFailedRejected ==
  [][\A j \in JobIds :
       (/\ lastOp'.op = "retry" /\ lastOp'.job = j
        /\ Exists(j) /\ jobs[j].status # "failed")
         => (/\ jobs'[j] = jobs[j]
             /\ retryPending' = retryPending
             /\ queue' = queue
             /\ bcast' = NoEvent)]_vars

\* the handler's completion and failure steps
SettlingOps ==
  {"completeWrite", "completeBroadcast", "completeVideo",
   "failWrite", "failBroadcast", "failVideo"}

\* C5: when the handler of a running job comes to its completion or failure
\* steps and the job has been cancelled, these steps leave the job's row as
\* it is (status cancelled, data and progress kept) and broadcast no
\* job_completed or job_failed event for it.
C5_LateResultDiscarded ==
  [][\A j \in JobIds :
       (/\ Exists(j) /\ jobs[j].status = "cancelled" /\ Running(j)
        /\ lastOp'.op \in SettlingOps /\ lastOp'.job = j)
         => (/\ jobs'[j] = jobs[j]
             /\ ~(bcast'.type \in {"job_completed", "job_failed"}
                  /\ bcast'.job = j))]_vars

\* C6: a job cancelled before it was ever started stays cancelled with
\* progress 0.
C6_CancelledWhileQueuedStays ==
  [][\A j \in JobIds :
       (/\ Exists(j) /\ jobs[j].status = "cancelled"
        /\ jobs[j].startedAt = Null /\ jobs[j].progress = 0)
         => (\/ jobs'[j] = Absent
             \/ jobs'[j].status = "cancelled" /\ jobs'[j].progress = 0)]_vars

\* C7: progress stays within 0..100, and while a job is processing its
\* progress goes down only by the reset of retry.
C7_ProgressRangeAndMonotonic ==
  [][\A j \in JobIds :
       jobs'[j] # Absent
         => (/\ jobs'[j].progress \in 0..100
             /\ (/\ Exists(j) /\ jobs[j].status = "processing"
                 /\ jobs'[j].progress < jobs[j].progress)
                  => lastOp'.op = "retry")]_vars

\* C8: a progress report on a job that is completed, failed or cancelled
\* changes no field of the job and broadcasts nothing.
C8_LateProgressIgnored ==
  [][\A j \in JobIds :
       (/\ lastOp'.op \in {"postProgress", "callbackWrite",
                           "callbackBroadcast"}
        /\ lastOp'.job = j
        /\ Exists(j) /\ jobs[j].status \in Terminal)
         => (jobs'[j] = jobs[j] /\ bcast' = NoEvent)]_vars

StatusOf(j) == IF Exists(j) THEN jobs[j].status ELSE "absent"
ProgressOf(j) == IF Exists(j) THEN jobs[j].progress ELSE -1

\* C9: under fair scheduling of the request handlers, the store, the worker
\* and the queue, in runs where no job is cancelled, retried or reported on
\* from outside and no worker throws, every submitted job is created queued
\* with progress 0, is then started by the worker (processing), and then
\* reaches completed with progress 100; its status changes only from queued
\* to processing and from processing to completed.
C9_ScenarioA ==
  /\ \A j \in JobIds :
       /\ [](lastOp = Op("createJob", j)
               => StatusOf(j) = "queued" /\ ProgressOf(j) = 0)
       /\ (lastOp = Op("createJob", j))
            ~> (lastOp = Op("startWrite", j) /\ StatusOf(j) = "processing")
       /\ (lastOp = Op("startWrite", j))
            ~> (StatusOf(j) = "completed" /\ ProgressOf(j) = 100)
  /\ [][\A j \in JobIds :
         StatusOf(j) # StatusOf(j)'
           => <<StatusOf(j), StatusOf(j)'>> \in
                {<<"absent", "queued">>, <<"queued", "processing">>,
                 <<"processing", "completed">>}]_vars

C9_Witness ==
  \E j \in JobIds :
    /\ lastOp = Op("completeWrite", j)
    /\ jobs[j].status = "completed"
    /\ jobs[j].progress = 100

ResetRow(row) ==
  /\ row.status = "queued"
  /\ row.progress = 0
  /\ row.error = Null
  /\ row.startedAt = Null
  /\ row.completedAt = Null

ItemsOf(q, j) == {k \in DOMAIN q : q[k].jobId = j}

\* C11: retry of a failed job leaves the row queued, progress 0, error,
\* startedAt and completedAt null; the request then adds exactly one work
\* item for that job id, waiting or taken at once by the idle loop, and
\* broadcasts job_retried with the reset row; under fair scheduling the
\* worker then starts on the job again as on a fresh one (start write,
\* status processing).
C11_ScenarioD ==
  /\ [][\A j \in JobIds :
         (lastOp'.op = "retry" /\ lastOp'.job = j)
           => /\ ResetRow(jobs'[j])
              /\ queue' = queue
              /\ bcast' = NoEvent]_vars
  /\ [][\A j \in JobIds :
         (lastOp'.op = "retryAdd" /\ lastOp'.job = j)
           => /\ Len(queue') = Len(queue) + 1
              /\ ItemsOf(queue', j) = ItemsOf(queue, j) \cup {Len(queue')}
              /\ queue'[Len(queue')].status \in {"waiting", "processing"}
              /\ \A k \in DOMAIN queue : queue'[k] = queue[k]
              /\ bcast'.type = "job_retried" /\ bcast'.job = j
              /\ ResetRow(bcast'.row)
              /\ jobs' = jobs]_vars
  /\ \A j \in JobIds :
       (lastOp = Op("retryAdd", j))
         ~> (lastOp = Op("startWrite", j) /\ StatusOf(j) = "processing")

C11_Witness ==
  \E j \in JobIds :
    /\ lastOp = Op("startWrite", j)
    /\ Cardinality(ItemsOf(queue, j)) = 2
    /\ \E k \in ItemsOf(queue, j) : queue[k].status = "failed"
    /\ jobs[j].status = "processing"
    /\ jobs[j].error = Null

\* a subscriber that is registered and whose socket is open and working
Listening(s) == s \in clients /\ sock[s] = "open"

IsSuffix(a, b) ==
  /\ Len(a) <= Len(b)
  /\ a = SubSeq(b, Len(b) - Len(a) + 1, Len(b))

EventsOf(q, j) == SelectSeq(q, LAMBDA e : e.job = j)

HasFirstEvent(q, j) ==
  \E i \in DOMAIN q : q[i].type = "video_uploaded" /\ q[i].job = j

\* C12: every event is appended, in emission order, to what each listening
\* subscriber has received, and only then does a subscriber's sequence grow;
\* a subscriber starts with nothing at registration (no replay); of two
\* listening subscribers the one registered later has received a suffix of
\* what the other has received, and two that both saw a job's first event
\* have received the same events of that job in the same order.
C12_ScenarioE ==
  [][/\ \A s \in Subs :
          /\ (Listening(s) /\ bcast' # NoEvent)
                => inbox'[s] = Append(inbox[s], bcast')
          /\ (Listening(s) /\ Listening(s)' /\ bcast' = NoEvent)
                => inbox'[s] = inbox[s]
          /\ ~Listening(s) => inbox'[s] = <<>>
     /\ \A s, t \in Subs :
          (Listening(s)' /\ Listening(t)')
            => /\ IsSuffix(inbox'[s], inbox'[t])
                    \/ IsSuffix(inbox'[t], inbox'[s])
               /\ \A j \in JobIds :
                    (HasFirstEvent(inbox'[s], j) /\ HasFirstEvent(inbox'[t], j))
                      => EventsOf(inbox'[s], j) = EventsOf(inbox'[t], j)]_vars

\* two listening subscribers, one from before job 1's first event and one
\* registered mid-run, when job 1 completes
C12_Witness ==
  \E s, t \in Subs :
    /\ Listening(s) /\ Listening(t)
    /\ bcast.type = "job_completed" /\ bcast.job = 1
    /\ HasFirstEvent(inbox[s], 1)
    /\ ~HasFirstEvent(inbox[t], 1)
    /\ Len(inbox[t]) >= 2
    /\ Len(inbox[s]) > Len(inbox[t])

\* C20: every broadcast reaches every subscriber that is registered and
\* whose socket is open and working, whatever the other registered sockets
\* are: closing, closed and not yet removed, or failing.
C20_EmitReachesOpenSubscribers ==
  [][bcast' # NoEvent
       => \A s \in Subs :
            Listening(s)
              => /\ Len(inbox'[s]) = Len(inbox[s]) + 1
                 /\ inbox'[s][Len(inbox'[s])] = bcast'
                 /\ Listening(s)']_vars

\* an event has just reached a subscriber while another registered socket
\* was not open, or open and failing
C20_Witness ==
  \E s, t \in Subs :
    /\ bcast # NoEvent
    /\ Listening(s)
    /\ inbox[s] # <<>> /\ inbox[s][Len(inbox[s])] = bcast
    /\ t \in clients /\ sock[t] \in {"broken", "closing"}

JobEvents ==
  {"job_progress", "job_completed", "job_failed", "job_cancelled",
   "job_retried"}

\* C13: a broadcast job event carries a job row, and that job is in the jobs
\* table when the event is sent.
C13_BroadcastJobExists ==
  bcast.type \in JobEvents => (bcast.row # Absent /\ Exists(bcast.job))

\* C14: a job that is completed, failed or cancelled has completedAt set,
\* and a job that is queued or processing has completedAt null.
C14_CompletedAtMatchesStatus ==
  \A j \in JobIds :
    Exists(j)
      => /\ jobs[j].status \in Terminal => jobs[j].completedAt # Null
         /\ jobs[j].status \in {"queued", "processing"}
              => jobs[j].completedAt = Null

\* the step writes a date into the startedAt column of job j
WritesStartedAt(j) ==
  /\ lastOp'.job = j
  /\ \/ lastOp'.op = "startWrite"
     \/ lastOp'.op = "postProgress" /\ "startedAt" \in lastOp'.cols

\* the step writes a date into the completedAt column of job j
WritesCompletedAt(j) ==
  /\ lastOp'.job = j
  /\ \/ lastOp'.op \in {"completeWrite", "failWrite"}
     \/ lastOp'.op = "postProgress" /\ "completedAt" \in lastOp'.cols

\* C15: startedAt and completedAt are written only while they are null: once
\* set, no step writes a date into them again until a retry has cleared
\* them.
C15_TimestampsWrittenOnce ==
  [][\A j \in JobIds :
       Exists(j)
         => /\ WritesStartedAt(j) => jobs[j].startedAt = Null
            /\ WritesCompletedAt(j) => jobs[j].completedAt = Null]_vars

\* C16: a job carries an error only while its status is failed.
C16_ErrorOnlyWhenFailed ==
  \A j \in JobIds :
    (Exists(j) /\ jobs[j].error # Null) => jobs[j].status = "failed"

C18_FailedSubmitNotApplied ==
  \A j \in JobIds :
    submitPc[j] = "error" => (videos[j] = Absent /\ jobs[j] = Absent)

\* C19: createJob adds exactly one row, which is queued with progress 0,
\* null startedAt and completedAt and the id of an existing video; the other
\* steps of the upload request add no row; when the request has added its
\* work item the row is still so and the queue holds exactly one item for
\* the job; every work item, and the running handler, names a job that is
\* in the jobs table.
C19_SubmitCreatesOneQueuedJob ==
  [][/\ \A j \in JobIds :
          /\ (~Exists(j) /\ jobs'[j] # Absent)
               => /\ lastOp' = Op("createJob", j)
                  /\ ResetRow(jobs'[j])
                  /\ jobs'[j].videoId \in JobIds
                  /\ videos'[jobs'[j].videoId] # Absent
                  /\ \A k \in JobIds \ {j} : jobs'[k] = jobs[k]
                  /\ ItemsOf(queue', j) = {}
          /\ lastOp' = Op("createJob", j) => (~Exists(j) /\ jobs'[j] # Absent)
          /\ lastOp' = Op("submit", j)
               => /\ jobs' = jobs
                  /\ ResetRow(jobs'[j])
                  /\ Cardinality(ItemsOf(queue', j)) = 1
                  /\ ItemsOf(queue, j) = {}
     /\ \A k \in DOMAIN queue' : jobs'[queue'[k].jobId] # Absent
     /\ h'.pc # "idle" => jobs'[h'.job] # Absent]_vars

\* the second upload has added its work item behind the first job's
C19_Witness ==
  /\ lastOp = Op("submit", 2)
  /\ Len(queue) = 2
  /\ queue[2].jobId = 2 /\ queue[2].status = "waiting"
  /\ jobs[2].status = "queued"
  /\ h.job = 1

\* C21: the registry holds the sockets that are connected and not yet
\* reported closed or failed: an open socket is registered, a registered
\* socket has connected and its close event has not been handled; a socket
\* enters the registry only at its connection, is out of it after its close
\* or error event, and receives nothing once it is out.
C21_RegistryTracksConnections ==
  [][\A s \in Subs :
       /\ ReadyOpen(s)' => s \in clients'
       /\ s \in clients' => sock'[s] \in {"open", "broken", "closing"}
       /\ (s \in clients' /\ s \notin clients)
            => sock[s] = "none" /\ sock'[s] = "open"
       /\ (sock[s] = "none" /\ sock'[s] # "none") => s \in clients'
       /\ (lastOp'.op \in {"onError", "onClose"} /\ sock'[s] # sock[s])
            => s \notin clients'
       /\ (s \notin clients /\ sock[s] # "none")
            => s \notin clients' /\ inbox'[s] = inbox[s]]_vars

\* a socket removed by its error event, while an event reaches another one
C21_Witness ==
  \E s, t \in Subs :
    /\ s \notin clients /\ sock[s] = "closing"
    /\ Listening(t)
    /\ bcast # NoEvent
    /\ inbox[t] # <<>>
    /\ inbox[s] = <<>>

\* C22: a step of a WebSocket client (connection, transport failure, close,
\* error event) changes no job, video or work item and does not disturb the
\* running handler; a broadcast with a failing registered socket changes no
\* job and lets the handler go on; and a job persisted as completed is never
\* changed to failed.
C22_SubscribersDoNotTouchJobs ==
  [][/\ sock' # sock
        => UNCHANGED <<jobs, videos, queue, isProcessing, h, cbs>>
     /\ (bcast' # NoEvent /\ lastOp' # lastOp
           /\ \E s \in clients : sock[s] = "broken")
        => /\ jobs' = jobs
           /\ lastOp'.op = "completeBroadcast" => h'.pc = "completeVideo"
     /\ \A j \in JobIds :
          (Exists(j) /\ jobs[j].status = "completed")
             => jobs'[j].status = "completed"]_vars

\* job_completed was broadcast while a registered socket was failing: the
\* send to it was lost, the job is still completed and the handler goes on
C22_Witness ==
  \E s \in clients :
    /\ sock[s] = "broken"
    /\ bcast.type = "job_completed"
    /\ lastOp.op = "completeBroadcast"
    /\ jobs[bcast.job].status = "completed"
    /\ h.pc = "completeVideo"

\* the handler has written the outcome of job j and its updateVideo call for
\* that outcome is still to come
VideoUpdatePending(j, status) ==
  /\ h.job = j
  /\ h.pc \in (IF status = "completed" THEN {"completeGet", "completeVideo"}
                ELSE {"failGet", "failVideo"})

\* C23: a job that is completed (failed) has an owning video whose status is
\* completed (failed), or the update of the video to that outcome is the
\* pending next step of the handler that wrote the outcome.
C23_VideoReflectsOutcome ==
  \A j \in JobIds :
    (Exists(j) /\ jobs[j].status \in {"completed", "failed"})
      => \/ videos[jobs[j].videoId] = Absent
         \/ videos[jobs[j].videoId].status = jobs[j].status
         \/ VideoUpdatePending(j, jobs[j].status)

\* the sockets created up to the k-th that opened
OpenedUpTo(k) == {i \in 1..k : ui.socks[i].opened}

\* the number of closes in a row without a successful open that precede the
\* close of socket k: the sockets created since the last one that opened
ClosesBefore(k) ==
  LET last == IF OpenedUpTo(k) = {} THEN 1
              ELSE CHOOSE i \in OpenedUpTo(k) : \A m \in OpenedUpTo(k) : m <= i
  IN  k - last

\* the socket whose close event the step delivers
ClosingNow(k) ==
  /\ k \in 1..Len(ui.socks)
  /\ ui.socks[k].state = "closing"
  /\ ui'.socks[k].state = "closed"

\* C24: the close event of a socket schedules exactly one reconnect timer,
\* with delay min(1000 * 2^n, 30000) for the n-th close in a row without a
\* successful open, n from 0: the base at first, twice the previous delay
\* while below the cap, never above the cap; every open resets the counter.
C24_ReconnectDelay ==
  [][\A k \in 1..MaxSockets :
       /\ ClosingNow(k)
            => /\ Len(ui'.timers) = Len(ui.timers) + 1
               /\ LET d == ui'.timers[Len(ui'.timers)].delay
                      n == ClosesBefore(k)
                  IN  /\ d = Min(BaseDelay * Pow2(n), MaxDelay)
                      /\ d <= MaxDelay
                      /\ n = 0 => d = BaseDelay
                      /\ (n > 0 /\ ui.timers # <<>>)
                           => d = Min(2 * ui.timers[Len(ui.timers)].delay,
                                      MaxDelay)
       /\ (k \in 1..Len(ui.socks) /\ ui.socks[k].state = "connecting"
             /\ ui'.socks[k].state = "open")
            => ui'.attempts = 0]_vars

\* the delay has reached the cap after six closes in a row, and a socket that
\* opened afterwards has closed with the base delay again
C24_Witness ==
  \E t \in 1..Len(ui.timers) :
    /\ t > 1
    /\ ui.timers[t - 1].delay = MaxDelay
    /\ ui.timers[t].delay = BaseDelay
    /\ \E u \in 1..Len(ui.timers) : ui.timers[u].delay = 16000

\* ws.current: the last socket the provider created, 0 before the first
Current == Len(ui.socks)

\* the parsed value of the last message of the sequence that parses, or the
\* initial null
RECURSIVE LastParsed(_)
LastParsed(ms) ==
  IF ms = <<>> THEN NoMessage
  ELSE IF JSONparse(ms[Len(ms)]).ok THEN JSONparse(ms[Len(ms)]).value
  ELSE LastParsed(SubSeq(ms, 1, Len(ms) - 1))

\* C25: isConnected is true exactly while the current socket has had its
\* open event and not yet its close event, and lastMessage is the parsed
\* value of the most recent received message that parses (null before the
\* first); a message that does not parse changes neither.
C25_ConnectedAndLastMessage ==
  [][/\ ui'.isConnected
          = (/\ Len(ui'.socks) > 0
             /\ ui'.socks[Len(ui'.socks)].opened
             /\ ui'.socks[Len(ui'.socks)].state \in {"open", "closing"})
     /\ ui'.lastMessage = LastParsed(ui'.msgs)
     /\ (/\ Len(ui'.msgs) = Len(ui.msgs) + 1
         /\ ~JSONparse(ui'.msgs[Len(ui'.msgs)]).ok)
          => /\ ui'.lastMessage = ui.lastMessage
             /\ ui'.isConnected = ui.isConnected]_vars

\* after a parsed message, a message that does not parse has arrived on the
\* open current socket
C25_Witness ==
  /\ Len(ui.msgs) = 2
  /\ JSONparse(ui.msgs[1]).ok
  /\ ~JSONparse(ui.msgs[2]).ok
  /\ ui.lastMessage = JSONparse(ui.msgs[1]).value
  /\ ui.isConnected
  /\ Current > 1
  /\ ui.socks[Current].state = "open"

\* item i of the queue enters processing in this step
EntersProcessing(i) ==
  /\ i \in 1..Len(queue')
  /\ queue'[i].status = "processing"
  /\ (i > Len(queue) \/ queue[i].status = "waiting")

\* C26: the queue keeps its jobs in the order of the add calls, and when a
\* job enters processing every job added before it has entered processing
\* in an earlier step; no waiting job ever precedes a started one.
C26_StartsInAddOrder ==
  [][/\ Len(queue') >= Len(queue)
     /\ \A k \in 1..Len(queue) : queue'[k].jobId = queue[k].jobId
     /\ \A i \in 1..Len(queue') :
          EntersProcessing(i)
            => \A k \in 1..(i - 1) : queue[k].status # "waiting"
     /\ \A i \in 1..Len(queue'), k \in 1..Len(queue') :
          (k < i /\ queue'[i].status # "waiting")
            => queue'[k].status # "waiting"]_vars

\* two jobs were added while a third one was being processed, and the one
\* added first of the two is running while the other still waits
C26_Witness ==
  /\ Len(queue) >= 3
  /\ queue[1].status \in {"completed", "failed"}
  /\ queue[2].status = "processing"
  /\ queue[3].status = "waiting"
  /\ h.item = 2

\* C27: the steps of getWorkerStats change no queue or store state, and the
\* result it returns has as many workers as its active count, with counts
\* that add up to a number of jobs the queue held at some moment of the call.
C27_StatsSnapshot ==
  [][/\ stats' # stats
        => UNCHANGED <<jobs, videos, queue, isProcessing, h, cbs>>
     /\ (stats.pc = "return" /\ stats'.pc = "done")
        => /\ Len(stats'.workers) = stats'.active
           /\ stats'.waiting + stats'.active + stats'.completed
                 + stats'.failed \in stats'.size0..Len(queue')]_vars

\* C28: in the sequence of events a subscriber receives, no job_progress
\* event of a job follows the job_completed or job_failed event of its run,
\* and the job_progress events of a job carry non-decreasing progress.
C28_TerminalEventLast ==
  \A s \in Subs : \A a, b \in DOMAIN inbox[s] :
    (a < b /\ inbox[s][a].job = inbox[s][b].job
           /\ inbox[s][b].type = "job_progress")
      => /\ inbox[s][a].type \notin {"job_completed", "job_failed"}
         /\ inbox[s][a].type = "job_progress"
              => inbox[s][a].progress <= inbox[s][b].progress

\* C29: every job added to the queue is eventually completed or failed,
\* however the add calls interleave with the processing loop, and at no time
\* have two jobs of the queue status processing.
C29_NoJobLost ==
  /\ \A k \in 1..(MaxJobs + MaxRequests) :
       (Len(queue) >= k)
         ~> (Len(queue) >= k /\ queue[k].status \in {"completed", "failed"})
  /\ [](Cardinality({k \in DOMAIN queue : queue[k].status = "processing"})
          <= 1)

\* three jobs went through the queue, two of them added while another one
\* was being processed; all have left waiting, one completed and one failed
C29_Witness ==
  /\ Len(queue) = 3
  /\ \A k \in 1..3 : queue[k].status \in {"completed", "failed"}
  /\ \E k \in 1..3 : queue[k].status = "completed"
  /\ \E k \in 1..3 : queue[k].status = "failed"
  /\ ~isProcessing

\* the provider's sockets that are connecting or open
LiveSockets(u) ==
  {k \in 1..Len(u.socks) : u.socks[k].state \in {"connecting", "open"}}

\* the provider's reconnect timers that are set and have not fired
PendingTimers(u) ==
  {t \in 1..Len(u.timers) : u.timers[t].state = "pending"}

\* C30: once the provider's cleanup has run no reconnect timer is pending,
\* none is set and no socket is created; while the provider is mounted at
\* most one of its sockets is connecting or open and at most one of its
\* reconnect timers is pending.
C30_NoReconnectAfterUnmount ==
  [][/\ ui'.mounted = "unmounted"
        => /\ PendingTimers(ui') = {}
           /\ ui.mounted = "unmounted"
                => /\ Len(ui'.timers) = Len(ui.timers)
                   /\ Len(ui'.socks) = Len(ui.socks)
     /\ ui'.mounted = "mounted"
        => /\ Cardinality(LiveSockets(ui')) <= 1
           /\ Cardinality(PendingTimers(ui')) <= 1]_vars

====
